---------------------------- MODULE Spec2Model ----------------------------
(***************************************************************************)
(* Nature Remo air-conditioner entity (custom_components/nature_remo/      *)
(* climate.py): command staging, the 100 ms debounce timer, the request    *)
(* round trip, the application of confirmed settings and of sensor         *)
(* readings, and the capabilities derived from the appliance's table.      *)
(*                                                                         *)
(* Python values are modelled as follows.  A str is a sequence of          *)
(* one-character strings, so that float() and f"{...}" are computed and    *)
(* not assumed.  A float is an integer number of tenths.  An optional      *)
(* value is None (the empty sequence) or Some(x) (a one-element            *)
(* sequence).  A dict is a function whose DOMAIN is its key set.  Strings  *)
(* that are only ever compared (mode names, fan and swing settings, time   *)
(* stamps) are TLA+ strings; strings that are parsed or formatted          *)
(* (temperatures) are character sequences.                                 *)
(*                                                                         *)
(* The handlers run on the host's event loop one at a time, each to its    *)
(* end or to its await, so an action is one handler run (for _on_post: the *)
(* part before the await, and the part after it).  Time is a clock that    *)
(* Tick advances; a timer whose time has come fires before or after other  *)
(* handlers, but not before its time.                                      *)
(***************************************************************************)
EXTENDS Integers, Sequences, FiniteSets, TLC

(* ------------------------------ bounds -------------------------------- *)

\* user commands outstanding at a time (staged, or merged into a request in
\* flight), over all entities
MaxCommands == 2
\* milliseconds by which one Tick advances the clock
TickMs == 50

(* ------------------------- python value helpers ----------------------- *)

None == << >>
Some(x) == << x >>
IsNone(o) == o = << >>
Val(o) == o[1]

\* the empty dict {}
EmptyDict == << >>

\* dict.update(e) on a copy of d: keys of e overwrite keys of d
DictUpdate(d, e) ==
    [k \in (DOMAIN d) \cup (DOMAIN e) |-> IF k \in DOMAIN e THEN e[k] ELSE d[k]]

\* d[k] = v on a copy of d
DictSet(d, k, v) == [x \in (DOMAIN d) \cup {k} |-> IF x = k THEN v ELSE d[x]]

\* sequence q without its i-th element
Remove(q, i) == SubSeq(q, 1, i - 1) \o SubSeq(q, i + 1, Len(q))

Min(a, b) == IF a < b THEN a ELSE b
Max(a, b) == IF a > b THEN a ELSE b

DigitChars == <<"0", "1", "2", "3", "4", "5", "6", "7", "8", "9">>
DigitSet == {DigitChars[i] : i \in 1..10}
DigitVal(c) == (CHOOSE i \in 1..10 : DigitChars[i] = c) - 1

\* str(n) for a natural number n
RECURSIVE NatStr(_)
NatStr(n) ==
    IF n < 10 THEN << DigitChars[n + 1] >>
    ELSE NatStr(n \div 10) \o << DigitChars[(n % 10) + 1] >>

\* the number a string of digits denotes (0 for the empty string)
RECURSIVE DigitsNat(_)
DigitsNat(s) ==
    IF s = << >> THEN 0
    ELSE 10 * DigitsNat(SubSeq(s, 1, Len(s) - 1)) + DigitVal(s[Len(s)])

\* float(s): Some(tenths), or None where Python raises ValueError.  The model
\* keeps one decimal place, which is all the strings it draws ever carry.
PyFloat(s) ==
    LET dots == {i \in 1..Len(s) : s[i] = "."} IN
    IF s = << >> THEN None
    ELSE IF \E i \in 1..Len(s) : s[i] \notin DigitSet \cup {"."} THEN None
    ELSE IF Cardinality(dots) > 1 THEN None
    ELSE IF dots = {} THEN Some(10 * DigitsNat(s))
    ELSE LET p  == CHOOSE i \in dots : TRUE
             ip == SubSeq(s, 1, p - 1)
             fp == SubSeq(s, p + 1, Len(s))
         IN  IF ip = << >> /\ fp = << >> THEN None
             ELSE IF Len(fp) > 1 THEN None
             ELSE Some(10 * DigitsNat(ip) + DigitsNat(fp))

\* float(s) for an entry of a capability table, in hundredths: Some(h), or
\* None where Python raises ValueError.  Two decimal places are kept, so that
\* round(..., 1) has something to round.
PyFloat100(s) ==
    LET dots == {i \in 1..Len(s) : s[i] = "."} IN
    IF s = << >> THEN None
    ELSE IF \E i \in 1..Len(s) : s[i] \notin DigitSet \cup {"."} THEN None
    ELSE IF Cardinality(dots) > 1 THEN None
    ELSE IF dots = {} THEN Some(100 * DigitsNat(s))
    ELSE LET p  == CHOOSE i \in dots : TRUE
             ip == SubSeq(s, 1, p - 1)
             fp == SubSeq(s, p + 1, Len(s))
         IN  IF ip = << >> /\ fp = << >> THEN None
             ELSE IF Len(fp) > 2 THEN None
             ELSE IF Len(fp) = 1 THEN Some(100 * DigitsNat(ip) + 10 * DigitsNat(fp))
             ELSE Some(100 * DigitsNat(ip) + DigitsNat(fp))

Abs(x) == IF x < 0 THEN 0 - x ELSE x

\* round(x, 1) for x in hundredths: the nearest tenth, again in hundredths.
\* A tie goes to the even tenth; the tables drawn hold no tie, which in
\* Python the binary value of the float decides.
Round1(x) ==
    LET m == Abs(x)
        lo == 10 * (m \div 10)
        r == m % 10
        up == IF r > 5 \/ (r = 5 /\ (m \div 10) % 2 = 1) THEN lo + 10 ELSE lo
    IN  IF x < 0 THEN 0 - up ELSE up

\* int(x) of a non-negative number x given in tenths
PyInt(x) == x \div 10

\* float.is_integer()
IsInteger(t) == t % 10 = 0

\* f"{int(t)}" and f"{t}" for a float t given in tenths
FormatInt(t) == NatStr(t \div 10)
FormatFloat(t) == NatStr(t \div 10) \o <<".">> \o NatStr(t % 10)

(* ------------------------------ constants ----------------------------- *)

\* timedelta(milliseconds=100) of _set_settings
QuietInterval == 100

HVACModes == {"AUTO", "FAN_ONLY", "COOL", "DRY", "HEAT", "OFF"}
RemoModes == {"auto", "blow", "cool", "dry", "warm", "power-off"}

MODE_HA_TO_REMO ==
    [m \in HVACModes |->
        CASE m = "AUTO" -> "auto"
          [] m = "FAN_ONLY" -> "blow"
          [] m = "COOL" -> "cool"
          [] m = "DRY" -> "dry"
          [] m = "HEAT" -> "warm"
          [] m = "OFF" -> "power-off"]

\* A bug variant of the table: "blow" is taken for the automatic mode.
MODE_REMO_TO_HA_BlowAsAuto ==
    [v \in RemoModes |->
        CASE v = "auto" -> "AUTO"
          [] v = "blow" -> "AUTO"
          [] v = "cool" -> "COOL"
          [] v = "dry" -> "DRY"
          [] v = "warm" -> "HEAT"
          [] v = "power-off" -> "OFF"]

MODE_REMO_TO_HA ==
    [v \in RemoModes |->
        CASE v = "auto" -> "AUTO"
          [] v = "blow" -> "FAN_ONLY"
          [] v = "cool" -> "COOL"
          [] v = "dry" -> "DRY"
          [] v = "warm" -> "HEAT"
          [] v = "power-off" -> "OFF"]

TEMP_UNIT_REMO_TO_HA ==
    [u \in {"c", "f"} |-> IF u = "c" THEN "CELSIUS" ELSE "FAHRENHEIT"]

DEFAULT_TEMP == [m \in HVACModes \ {"OFF"} |-> 23]


(* --------------------------- input domains ---------------------------- *)

S25 == <<"2", "5">>
S26 == <<"2", "6">>

\* settings objects the server returns (appliance["settings"] of a poll, or
\* the answer to a posted command)
CoolOn ==
    [mode |-> "cool", temp |-> S25, button |-> "", vol |-> "auto",
     dir |-> "swing", temp_unit |-> "c", updated_at |-> "t1"]
WarmOffNoTemp ==
    [mode |-> "warm", temp |-> << >>, button |-> "power-off", vol |-> "",
     dir |-> "", temp_unit |-> "c", updated_at |-> "t2"]
WarmOn ==
    [mode |-> "warm", temp |-> S26, button |-> "", vol |-> "auto",
     dir |-> "", temp_unit |-> "c", updated_at |-> "t2"]
CoolBadTemp ==
    [mode |-> "cool", temp |-> <<"x">>, button |-> "", vol |-> "",
     dir |-> "swing", temp_unit |-> "f", updated_at |-> ""]

\* temperatures as the capability tables spell them
T18 == <<"1", "8">>
T185 == <<"1", "8", ".", "5">>
T1854 == <<"1", "8", ".", "5", "4">>
T19 == <<"1", "9">>
T20 == <<"2", "0">>
T22 == <<"2", "2">>

\* capability tables (appliance["aircon"]["range"]["modes"]): per vendor mode
\* the temperatures, fan settings and swing settings the unit supports
PlainRange ==
    ("cool" :> [temp |-> <<T18, T19, T20>>, vol |-> <<"auto", "1">>,
                dir |-> <<"swing">>])
    @@ ("warm" :> [temp |-> <<T18, T185, T19>>, vol |-> <<"auto">>,
                   dir |-> << >>])
\* a gap of two degrees; no temperature at all
GapRange ==
    ("cool" :> [temp |-> <<T18, T20, T22>>, vol |-> <<"auto">>,
                dir |-> <<"swing">>])
    @@ ("warm" :> [temp |-> << >>, vol |-> <<"auto">>, dir |-> << >>])
\* a single temperature after an empty entry; empty entries only
SparseRange ==
    ("cool" :> [temp |-> << << >>, S25 >>, vol |-> <<"auto">>,
                dir |-> <<"swing">>])
    @@ ("warm" :> [temp |-> << << >>, << >> >>, vol |-> <<"auto">>,
                   dir |-> << >>])
\* a second value with two decimals; values out of order
RoughRange ==
    ("cool" :> [temp |-> << << >>, T18, T1854 >>, vol |-> <<"auto">>,
                dir |-> <<"swing">>])
    @@ ("warm" :> [temp |-> <<T20, T18, T19>>, vol |-> <<"auto">>,
                   dir |-> << >>])

\* The inputs of the control-path specification: every kind of command, a
\* confirmation that turns the unit on and one that turns it off.
\*   calls      set_temperature calls: the temperature (a float, in tenths)
\*              and the hvac_mode keyword, if given
\*   modes      modes a user selects with set_hvac_mode
\*   restored   previous_target_temperature attributes of a restored state
\*   telemetry  newest_events of the device: temperature and humidity, in
\*              tenths
\*   commands   how many commands may be outstanding
\*   entities   the appliances async_setup_entry creates an AirconEntity
\*              for, in the order of their construction
\*   ranges     capability tables an appliance may come with
ControlInputs ==
    [ entities |-> <<"ac1">>,
      commands |-> MaxCommands,
      calls |-> { [temperature |-> 240, hvac_mode |-> None],
                  [temperature |-> 245, hvac_mode |-> Some("COOL")] },
      modes |-> {"HEAT", "OFF"},
      fans |-> {"auto"},
      swings |-> {"swing"},
      settings |-> {CoolOn, WarmOffNoTemp},
      restored |-> {},
      ranges |-> {PlainRange},
      telemetry |-> { [te |-> 205, hu |-> 405] } ]

\* The inputs of the settings specification: every kind of settings object
\* and a restored state, with fewer commands.
SettingsInputs ==
    [ entities |-> <<"ac1">>,
      commands |-> MaxCommands - 1,
      calls |-> { [temperature |-> 240, hvac_mode |-> None] },
      modes |-> {"COOL", "HEAT"},
      fans |-> {"auto"},
      swings |-> {"swing"},
      settings |-> {CoolOn, WarmOffNoTemp, WarmOn, CoolBadTemp},
      restored |-> { "cool" :> S26 },
      ranges |-> {PlainRange},
      telemetry |-> { [te |-> 205, hu |-> 405] } ]

\* The inputs of the telemetry specification: two readings of the device's
\* sensors, next to a control path with one kind of settings.
TelemetryInputs ==
    [ entities |-> <<"ac1">>,
      commands |-> MaxCommands - 1,
      calls |-> { [temperature |-> 240, hvac_mode |-> None] },
      modes |-> {"HEAT"},
      fans |-> {"auto"},
      swings |-> {"swing"},
      settings |-> {CoolOn, WarmOffNoTemp},
      restored |-> {},
      ranges |-> {PlainRange},
      telemetry |-> { [te |-> 205, hu |-> 405], [te |-> 210, hu |-> 500] } ]

\* The inputs of the capability specification: every kind of capability
\* table, with settings of both modes, on and off.
CapabilityInputs ==
    [ entities |-> <<"ac1">>,
      commands |-> MaxCommands - 1,
      calls |-> { [temperature |-> 240, hvac_mode |-> None] },
      modes |-> {"HEAT"},
      fans |-> {"auto"},
      swings |-> {"swing"},
      settings |-> {CoolOn, WarmOffNoTemp, WarmOn},
      restored |-> {},
      ranges |-> {PlainRange, GapRange, SparseRange, RoughRange},
      telemetry |-> { [te |-> 205, hu |-> 405] } ]

\* The inputs of the scheduling specification: bursts of up to MaxCommands
\* commands of every kind, one kind of settings.
SchedulingInputs ==
    [ entities |-> <<"ac1">>,
      commands |-> MaxCommands,
      calls |-> { [temperature |-> 240, hvac_mode |-> None] },
      modes |-> {"HEAT"},
      fans |-> {"auto"},
      swings |-> {"swing"},
      settings |-> {CoolOn},
      restored |-> {},
      ranges |-> {PlainRange},
      telemetry |-> { [te |-> 205, hu |-> 405] } ]

\* The inputs of the two-appliance specification: two entities of one
\* account, on one device, neither with a stored state to restore.
PairInputs ==
    [ entities |-> <<"ac1", "ac2">>,
      commands |-> MaxCommands - 1,
      calls |-> { [temperature |-> 240, hvac_mode |-> None] },
      modes |-> {"HEAT"},
      fans |-> {"auto"},
      swings |-> {"swing"},
      settings |-> {CoolOn, WarmOn},
      restored |-> {},
      ranges |-> {PlainRange},
      telemetry |-> { [te |-> 205, hu |-> 405] } ]

(* ------------------------------- state -------------------------------- *)

VARIABLES
    entities,       \* the constructed entities
    modes,          \* per entity: _modes, the capability table
    attr,           \* per entity: the observable attributes
    class_last,     \* AirconEntity._last_target_temperature, the class attribute
    inst_last,      \* per entity: the instance attribute shadowing it, if set
    added,          \* per entity: async_added_to_hass has run
    removed,        \* per entity: the host has torn the entity down
    next_settings,  \* per entity: _next_settings (None or a dict)
    post_cancel,    \* per entity: _post_cancel (None or the id of a timer)
    timers,         \* per entity: timers scheduled on the event loop, [id, left]
    inflight,       \* per entity: the data of the _post calls not yet resolved
    burst,          \* per entity: commands staged since the last dispatch
    carried,        \* per entity: how many commands each request in flight merged
    elapsed,        \* per entity: ms since the last command, capped
    answer          \* per entity: how its last completed request ended, if any,
                    \* and which of the requests in flight it was

entityVars == <<attr, class_last, inst_last>>
lifeVars == <<entities, modes, added, removed>>
pendingVars == <<next_settings, post_cancel, timers>>
transportVars == <<inflight>>
historyVars == <<burst, carried, elapsed, answer>>
vars == <<entityVars, lifeVars, pendingVars, transportVars, historyVars>>

\* what self._last_target_temperature evaluates to for entity a
LastTarget(a) == IF IsNone(inst_last[a]) THEN class_last ELSE Val(inst_last[a])

(* --------------------- _on_settings_update (216-233) ------------------ *)

\* A bug variant: the target is remembered before the mode field is taken
\* over, under the mode that was current before the update.
OnSettingsUpdateStaleMode(e, last, s) ==
    LET parsed == PyFloat(s.temp) IN
    [ attr |-> [e EXCEPT
          !.remo_mode = s.mode,
          !.target_temperature = parsed,
          !.hvac_mode = IF s.button = MODE_HA_TO_REMO["OFF"]
                        THEN "OFF" ELSE MODE_REMO_TO_HA[s.mode],
          !.fan_mode = IF s.vol = "" THEN None ELSE Some(s.vol),
          !.swing_mode = IF s.dir = "" THEN None ELSE Some(s.dir),
          !.temperature_unit = TEMP_UNIT_REMO_TO_HA[s.temp_unit],
          !.updated_at = IF s.updated_at = "" THEN None ELSE Some(s.updated_at)],
      last |-> IF IsNone(parsed) THEN last ELSE DictSet(last, e.remo_mode, s.temp) ]

\* A bug variant: a unit that is off is remembered as being in mode
\* "power-off".
OnSettingsUpdateOffAsMode(e, last, s) ==
    LET parsed == PyFloat(s.temp)
        mode == IF s.button = MODE_HA_TO_REMO["OFF"] THEN s.button ELSE s.mode
    IN
    [ attr |-> [e EXCEPT
          !.remo_mode = mode,
          !.target_temperature = parsed,
          !.hvac_mode = MODE_REMO_TO_HA[mode],
          !.fan_mode = IF s.vol = "" THEN None ELSE Some(s.vol),
          !.swing_mode = IF s.dir = "" THEN None ELSE Some(s.dir),
          !.temperature_unit = TEMP_UNIT_REMO_TO_HA[s.temp_unit],
          !.updated_at = IF s.updated_at = "" THEN None ELSE Some(s.updated_at)],
      last |-> IF IsNone(parsed) THEN last ELSE DictSet(last, mode, s.temp) ]

\* A bug variant: the memory is written before float() is tried.
OnSettingsUpdateRecordFirst(e, last, s) ==
    LET parsed == PyFloat(s.temp) IN
    [ attr |-> [e EXCEPT
          !.remo_mode = s.mode,
          !.target_temperature = parsed,
          !.hvac_mode = IF s.button = MODE_HA_TO_REMO["OFF"]
                        THEN "OFF" ELSE MODE_REMO_TO_HA[s.mode],
          !.fan_mode = IF s.vol = "" THEN None ELSE Some(s.vol),
          !.swing_mode = IF s.dir = "" THEN None ELSE Some(s.dir),
          !.temperature_unit = TEMP_UNIT_REMO_TO_HA[s.temp_unit],
          !.updated_at = IF s.updated_at = "" THEN None ELSE Some(s.updated_at)],
      last |-> DictSet(last, s.mode, s.temp) ]

\* _on_settings_update(ac_settings) on attributes e with memory dict last:
\* the new attributes and the new content of the dict.
OnSettingsUpdate(e, last, s) ==
    LET parsed == PyFloat(s.temp) IN
    [ attr |-> [e EXCEPT
          !.remo_mode = s.mode,
          !.target_temperature = parsed,
          !.hvac_mode = IF s.button = MODE_HA_TO_REMO["OFF"]
                        THEN "OFF" ELSE MODE_REMO_TO_HA[s.mode],
          !.fan_mode = IF s.vol = "" THEN None ELSE Some(s.vol),
          !.swing_mode = IF s.dir = "" THEN None ELSE Some(s.dir),
          !.temperature_unit = TEMP_UNIT_REMO_TO_HA[s.temp_unit],
          !.updated_at = IF s.updated_at = "" THEN None ELSE Some(s.updated_at)],
      last |-> IF IsNone(parsed) THEN last ELSE DictSet(last, s.mode, s.temp) ]

\* A bug variant: the reading is taken whether or not the refresh succeeded.
OnDeviceUpdateIgnoreFlag(e, dev) ==
    [e EXCEPT !.current_temperature = Some(dev.data.te),
              !.current_humidity = Some(PyInt(dev.data.hu))]

\* _on_device_update() on attributes e
OnDeviceUpdate(e, dev) ==
    IF ~dev.last_update_success THEN e
    ELSE [e EXCEPT !.current_temperature = Some(dev.data.te),
                   !.current_humidity = Some(PyInt(dev.data.hu))]

\* the attributes of an entity before __init__ has applied anything
BlankAttr ==
    [ remo_mode |-> "", target_temperature |-> None, hvac_mode |-> "",
      fan_mode |-> None, swing_mode |-> None, temperature_unit |-> "",
      updated_at |-> None, current_temperature |-> None,
      current_humidity |-> None ]


(* ------------------- capabilities (124-167, 267-269) ------------------ *)

\* the truth value filter(None, ...) keeps a string by
Truthy(s) == s # << >>

RECURSIVE SeqMin(_)
SeqMin(q) == IF Len(q) = 1 THEN q[1] ELSE Min(q[1], SeqMin(Tail(q)))
RECURSIVE SeqMax(_)
SeqMax(q) == IF Len(q) = 1 THEN q[1] ELSE Max(q[1], SeqMax(Tail(q)))

\* _current_mode_temp_range(): the floats (in hundredths) of the non-empty
\* entries of the table of the remembered mode
current_mode_temp_range(a) ==
    LET temp_range == modes[a][attr[a].remo_mode].temp
        kept == SelectSeq(temp_range, Truthy)
    IN  [i \in 1..Len(kept) |-> Val(PyFloat100(kept[i]))]

\* A bug variant: the first entry is taken for the least.
min_temp_first(a) ==
    LET temp_range == current_mode_temp_range(a) IN
    IF Len(temp_range) = 0 THEN 0 ELSE temp_range[1]

\* min_temp
min_temp(a) ==
    LET temp_range == current_mode_temp_range(a) IN
    IF Len(temp_range) = 0 THEN 0 ELSE SeqMin(temp_range)

\* max_temp
max_temp(a) ==
    LET temp_range == current_mode_temp_range(a) IN
    IF Len(temp_range) = 0 THEN 0 ELSE SeqMax(temp_range)

\* A bug variant: any gap is accepted as the step.
target_temperature_step_any(a) ==
    LET temp_range == current_mode_temp_range(a) IN
    IF Len(temp_range) >= 2 THEN Round1(temp_range[2] - temp_range[1]) ELSE 100

\* target_temperature_step, in hundredths
target_temperature_step(a) ==
    LET temp_range == current_mode_temp_range(a) IN
    IF Len(temp_range) >= 2
    THEN LET step == Round1(temp_range[2] - temp_range[1]) IN
         IF step \in {100, 50} THEN step ELSE 100
    ELSE 100

\* hvac_modes, as the set of the list's members
hvac_modes(a) ==
    {MODE_REMO_TO_HA[v] : v \in DOMAIN modes[a]} \cup {"OFF"}

\* fan_modes
fan_modes(a) == modes[a][attr[a].remo_mode].vol

\* swing_modes
swing_modes(a) == modes[a][attr[a].remo_mode].dir

(* ----------------------- set_temperature (177-198) -------------------- *)

\* A bug variant: the remembered target of the mode is ignored.
SetTemperatureDataNoMemory(last, temperature, hvac_mode) ==
    LET staged ==
            IF IsNone(hvac_mode) THEN EmptyDict
            ELSE LET mode == MODE_HA_TO_REMO[Val(hvac_mode)] IN
                 IF mode = MODE_HA_TO_REMO["OFF"] THEN ("button" :> mode)
                 ELSE IF Val(hvac_mode) \in DOMAIN DEFAULT_TEMP
                         /\ DEFAULT_TEMP[Val(hvac_mode)] # 0
                 THEN ("operation_mode" :> mode)
                      @@ ("temperature" :> NatStr(DEFAULT_TEMP[Val(hvac_mode)]))
                 ELSE ("operation_mode" :> mode)
    IN  IF IsNone(temperature) THEN staged
        ELSE DictSet(staged, "temperature",
                     IF IsInteger(Val(temperature)) THEN FormatInt(Val(temperature))
                     ELSE FormatFloat(Val(temperature)))

\* A bug variant: a whole-number temperature is not cast to int.
SetTemperatureDataNoCast(last, temperature, hvac_mode) ==
    LET staged ==
            IF IsNone(hvac_mode) THEN EmptyDict
            ELSE LET mode == MODE_HA_TO_REMO[Val(hvac_mode)] IN
                 IF mode = MODE_HA_TO_REMO["OFF"] THEN ("button" :> mode)
                 ELSE IF mode \in DOMAIN last /\ last[mode] # << >>
                 THEN ("operation_mode" :> mode) @@ ("temperature" :> last[mode])
                 ELSE IF Val(hvac_mode) \in DOMAIN DEFAULT_TEMP
                         /\ DEFAULT_TEMP[Val(hvac_mode)] # 0
                 THEN ("operation_mode" :> mode)
                      @@ ("temperature" :> NatStr(DEFAULT_TEMP[Val(hvac_mode)]))
                 ELSE ("operation_mode" :> mode)
    IN  IF IsNone(temperature) THEN staged
        ELSE DictSet(staged, "temperature", FormatFloat(Val(temperature)))

\* The dict `data` that set_temperature(temperature, hvac_mode) builds when
\* self._last_target_temperature is `last`.  DEFAULT_TEMP holds ints; a staged
\* int is modelled by its str(), which is how the request encodes it.
SetTemperatureData(last, temperature, hvac_mode) ==
    LET staged ==
            IF IsNone(hvac_mode) THEN EmptyDict
            ELSE LET mode == MODE_HA_TO_REMO[Val(hvac_mode)] IN
                 IF mode = MODE_HA_TO_REMO["OFF"] THEN ("button" :> mode)
                 ELSE IF mode \in DOMAIN last /\ last[mode] # << >>
                 THEN ("operation_mode" :> mode) @@ ("temperature" :> last[mode])
                 ELSE IF Val(hvac_mode) \in DOMAIN DEFAULT_TEMP
                         /\ DEFAULT_TEMP[Val(hvac_mode)] # 0
                 THEN ("operation_mode" :> mode)
                      @@ ("temperature" :> NatStr(DEFAULT_TEMP[Val(hvac_mode)]))
                 ELSE ("operation_mode" :> mode)
    IN  IF IsNone(temperature) THEN staged
        ELSE DictSet(staged, "temperature",
                     IF IsInteger(Val(temperature)) THEN FormatInt(Val(temperature))
                     ELSE FormatFloat(Val(temperature)))

(* ------------------------ _set_settings (246-255) --------------------- *)

\* A bug variant: a new command replaces the buffer instead of merging.
MergeSettingsReplace(ns, data) == Some(data)

\* lines 247-250: the new value of _next_settings
MergeSettings(ns, data) ==
    IF IsNone(ns) THEN Some(data) ELSE Some(DictUpdate(Val(ns), data))

\* the id async_call_later gives a new timer: the least one not scheduled
FreshTimerId(tm) ==
    CHOOSE i \in 1..(Cardinality(tm) + 1) :
        /\ \A t \in tm : t.id # i
        /\ \A j \in 1..(i - 1) : \E t \in tm : t.id = j

\* A bug variant: a command that finds a timer armed cancels it and arms
\* none.
ArmTimerCancelOnly(tm, pc) ==
    IF IsNone(pc)
    THEN [ timers |-> tm \cup {[id |-> FreshTimerId(tm), left |-> QuietInterval]},
           post_cancel |-> Some(FreshTimerId(tm)) ]
    ELSE [ timers |-> {t \in tm : t.id # Val(pc)}, post_cancel |-> None ]

\* A bug variant: the previous timer is not cancelled.
ArmTimerNoCancel(tm, pc) ==
    LET id == FreshTimerId(tm) IN
    [ timers |-> tm \cup {[id |-> id, left |-> QuietInterval]},
      post_cancel |-> Some(id) ]

\* lines 251-255: cancel the timer _post_cancel names, schedule a new one
\* QuietInterval from now and keep its handle
ArmTimer(tm, pc) ==
    LET kept == IF IsNone(pc) THEN tm ELSE {t \in tm : t.id # Val(pc)}
        id == FreshTimerId(kept)
    IN  [ timers |-> kept \cup {[id |-> id, left |-> QuietInterval]},
          post_cancel |-> Some(id) ]

\* a user command may be issued to entity a
RECURSIVE SeqSum(_)
SeqSum(q) == IF q = << >> THEN 0 ELSE q[1] + SeqSum(Tail(q))

\* commands staged and not dispatched, or dispatched and not resolved
RECURSIVE Outstanding(_)
Outstanding(E) ==
    IF E = {} THEN 0
    ELSE LET a == CHOOSE x \in E : TRUE IN
         Len(burst[a]) + SeqSum(carried[a]) + Outstanding(E \ {a})

\* the host delivers commands to an entity it has added and not removed
CanCommand(a) == a \in entities /\ added[a] /\ ~removed[a]

\* _set_settings(data); `call` records the command for the history
SetSettings(a, data, call) ==
    LET armed == ArmTimer(timers[a], post_cancel[a]) IN
    /\ next_settings' = [next_settings EXCEPT ![a] = MergeSettings(@, data)]
    /\ timers' = [timers EXCEPT ![a] = armed.timers]
    /\ post_cancel' = [post_cancel EXCEPT ![a] = armed.post_cancel]
    /\ burst' = [burst EXCEPT ![a] = Append(@, [call |-> call, data |-> data])]
    /\ elapsed' = [elapsed EXCEPT ![a] = 0]
    /\ UNCHANGED <<carried, answer>>

(* ----------------------------- user commands -------------------------- *)

\* A bug variant: the new target is shown at once, before it is confirmed.
SetTemperatureOptimistic(a, temperature, hvac_mode) ==
    /\ CanCommand(a)
    /\ SetSettings(a, SetTemperatureData(LastTarget(a), temperature, hvac_mode),
                   [op |-> "set_temperature", temperature |-> temperature,
                    hvac_mode |-> hvac_mode])
    /\ attr' = [attr EXCEPT ![a].target_temperature =
                    IF IsNone(temperature) THEN @ ELSE temperature]
    /\ UNCHANGED <<class_last, inst_last, lifeVars, transportVars>>

\* set_temperature(temperature, hvac_mode)
SetTemperature(a, temperature, hvac_mode) ==
    /\ CanCommand(a)
    /\ SetSettings(a, SetTemperatureData(LastTarget(a), temperature, hvac_mode),
                   [op |-> "set_temperature", temperature |-> temperature,
                    hvac_mode |-> hvac_mode])
    /\ UNCHANGED <<entityVars, lifeVars, transportVars>>

\* set_hvac_mode(hvac_mode)
SetHvacMode(a, hvac_mode) == SetTemperature(a, None, Some(hvac_mode))

\* set_fan_mode(fan_mode)
SetFanMode(a, fan_mode) ==
    /\ CanCommand(a)
    /\ SetSettings(a, "air_volume" :> fan_mode,
                   [op |-> "set_fan_mode", temperature |-> None,
                    hvac_mode |-> None])
    /\ UNCHANGED <<entityVars, lifeVars, transportVars>>

\* set_swing_mode(swing_mode)
SetSwingMode(a, swing_mode) ==
    /\ CanCommand(a)
    /\ SetSettings(a, "air_direction" :> swing_mode,
                   [op |-> "set_swing_mode", temperature |-> None,
                    hvac_mode |-> None])
    /\ UNCHANGED <<entityVars, lifeVars, transportVars>>


(* --------------------------- _on_post (257-265) ----------------------- *)

\* A bug variant: the handle of the fired timer is kept.
OnPostBeginKeepHandle(pc, ns) ==
    [ post_cancel |-> pc, next_settings |-> None, data |-> ns ]

\* lines 258-260: forget the handle, take the buffer and empty it
OnPostBegin(pc, ns) ==
    [ post_cancel |-> None, next_settings |-> None, data |-> ns ]

\* how a request ended: the await of line 261 raised, or it returned
\* settings, for the i-th oldest of the requests in flight
Failed == [how |-> "failed", place |-> 0]
Answered(i) == [how |-> "answered", place |-> i]

\* A timer of entity a comes due and runs _on_post up to its await: the
\* taken buffer is handed to the transport.
Fire(a, t) ==
    /\ a \in entities
    /\ t \in timers[a]
    /\ t.left = 0
    /\ LET b == OnPostBegin(post_cancel[a], next_settings[a]) IN
        /\ post_cancel' = [post_cancel EXCEPT ![a] = b.post_cancel]
        /\ next_settings' = [next_settings EXCEPT ![a] = b.next_settings]
        /\ inflight' = [inflight EXCEPT ![a] = Append(@, b.data)]
    /\ timers' = [timers EXCEPT ![a] = @ \ {t}]
    /\ burst' = [burst EXCEPT ![a] = << >>]
    /\ carried' = [carried EXCEPT ![a] = Append(@, Len(burst[a]))]
    /\ UNCHANGED <<entityVars, lifeVars, elapsed, answer>>

\* self._on_settings_update(s) on entity a: the attributes, and the dict that
\* self._last_target_temperature names (the class attribute unless the
\* instance has its own)
ApplySettings(a, s) ==
    LET r == OnSettingsUpdate(attr[a], LastTarget(a), s) IN
    /\ attr' = [attr EXCEPT ![a] = r.attr]
    /\ class_last' = IF IsNone(inst_last[a]) THEN r.last ELSE class_last
    /\ inst_last' = IF IsNone(inst_last[a]) THEN inst_last
                    ELSE [inst_last EXCEPT ![a] = Some(r.last)]

\* A bug variant: one answer settles every request in flight, so a later
\* answer is never applied.
ResolveDropsOthers(a, i, s) ==
    /\ a \in entities
    /\ i \in DOMAIN inflight[a]
    /\ ApplySettings(a, s)
    /\ inflight' = [inflight EXCEPT ![a] = << >>]
    /\ carried' = [carried EXCEPT ![a] = << >>]
    /\ answer' = [answer EXCEPT ![a] = Some(Answered(i))]
    /\ UNCHANGED <<lifeVars, pendingVars, burst, elapsed>>

\* A bug variant: the buffer is emptied once more when the answer arrives.
ResolveClearsBuffer(a, i, s) ==
    /\ a \in entities
    /\ i \in DOMAIN inflight[a]
    /\ ApplySettings(a, s)
    /\ inflight' = [inflight EXCEPT ![a] = Remove(@, i)]
    /\ carried' = [carried EXCEPT ![a] = Remove(@, i)]
    /\ next_settings' = [next_settings EXCEPT ![a] = None]
    /\ answer' = [answer EXCEPT ![a] = Some(Answered(i))]
    /\ UNCHANGED <<lifeVars, post_cancel, timers, burst, elapsed>>

\* lines 261-265: request i of entity a resolves with settings s, which
\* _on_post applies
Resolve(a, i, s) ==
    /\ a \in entities
    /\ i \in DOMAIN inflight[a]
    /\ ApplySettings(a, s)
    /\ inflight' = [inflight EXCEPT ![a] = Remove(@, i)]
    /\ carried' = [carried EXCEPT ![a] = Remove(@, i)]
    /\ answer' = [answer EXCEPT ![a] = Some(Answered(i))]
    /\ UNCHANGED <<lifeVars, pendingVars, burst, elapsed>>

\* A bug variant: the data of the failed request is staged again.
PostFailRetry(a, i) ==
    LET armed == ArmTimer(timers[a], post_cancel[a]) IN
    /\ a \in entities
    /\ i \in DOMAIN inflight[a]
    /\ inflight' = [inflight EXCEPT ![a] = Remove(@, i)]
    /\ carried' = [carried EXCEPT ![a] = Remove(@, i)]
    /\ answer' = [answer EXCEPT ![a] = Some(Failed)]
    /\ next_settings' = [next_settings EXCEPT ![a] =
                             IF IsNone(inflight[a][i]) THEN @
                             ELSE MergeSettings(@, Val(inflight[a][i]))]
    /\ timers' = [timers EXCEPT ![a] = armed.timers]
    /\ post_cancel' = [post_cancel EXCEPT ![a] = armed.post_cancel]
    /\ UNCHANGED <<entityVars, lifeVars, burst, elapsed>>

\* lines 261-263: request i of entity a fails; the exception raised by the
\* await leaves _on_post, which catches nothing
PostFail(a, i) ==
    /\ a \in entities
    /\ i \in DOMAIN inflight[a]
    /\ inflight' = [inflight EXCEPT ![a] = Remove(@, i)]
    /\ carried' = [carried EXCEPT ![a] = Remove(@, i)]
    /\ answer' = [answer EXCEPT ![a] = Some(Failed)]
    /\ UNCHANGED <<entityVars, lifeVars, pendingVars, burst, elapsed>>

(* ------------------------ polling and life cycle ---------------------- *)

\* _on_data_update(appliance) with appliance["settings"] = s
OnDataUpdate(a, s) ==
    /\ a \in entities
    /\ ~removed[a]
    /\ ApplySettings(a, s)
    /\ UNCHANGED <<lifeVars, pendingVars, transportVars, historyVars>>

\* async_added_to_hass() with async_get_last_state() = state
AsyncAddedToHass(a, state) ==
    /\ a \in entities
    /\ ~added[a]
    /\ added' = [added EXCEPT ![a] = TRUE]
    /\ inst_last' = IF IsNone(state) THEN inst_last
                    ELSE [inst_last EXCEPT ![a] = state]
    /\ UNCHANGED <<attr, class_last, entities, modes, removed, pendingVars,
                   transportVars, historyVars>>

\* The device coordinator refreshes, with last_update_success = ok and the
\* device's newest_events = d, and calls its listeners; the listener of an
\* entity is _on_device_update, registered until the entity is removed.
DevicesRefresh(ok, d) ==
    LET dev == [last_update_success |-> ok, data |-> d] IN
    /\ attr' = [a \in entities |->
                   IF removed[a] THEN attr[a] ELSE OnDeviceUpdate(attr[a], dev)]
    /\ UNCHANGED <<class_last, inst_last, lifeVars, pendingVars,
                   transportVars, historyVars>>

\* The host removes entity a and runs the callbacks given to async_on_remove,
\* which is the removal of the device listener and nothing else.
Teardown(a) ==
    /\ a \in entities
    /\ added[a]
    /\ ~removed[a]
    /\ removed' = [removed EXCEPT ![a] = TRUE]
    /\ UNCHANGED <<entityVars, entities, modes, added, pendingVars,
                   transportVars, historyVars>>

\* TickMs milliseconds pass
Tick ==
    /\ \E a \in entities : \E t \in timers[a] : t.left > 0
    /\ timers' = [a \in entities |->
                     {[t EXCEPT !.left = Max(0, @ - TickMs)] : t \in timers[a]}]
    /\ elapsed' = [a \in entities |-> Min(QuietInterval, elapsed[a] + TickMs)]
    /\ UNCHANGED <<entityVars, lifeVars, next_settings, post_cancel,
                   transportVars, burst, carried, answer>>

(* ---------------------------- specification --------------------------- *)

\* AirconEntity._last_target_temperature once the entities of `order` are
\* constructed, entity a from settings first[a]: each __init__ applies its
\* settings, and the instance has no dict of its own yet
RECURSIVE ConstructedLast(_, _, _)
ConstructedLast(order, first, last) ==
    IF order = << >> THEN last
    ELSE ConstructedLast(Tail(order), first,
             OnSettingsUpdate(BlankAttr, last, first[Head(order)]).last)

\* The entities as __init__ leaves them: the appliance's settings and the
\* device's telemetry applied, nothing staged.
InitWith(in) ==
    /\ entities = {in.entities[i] : i \in DOMAIN in.entities}
    /\ modes \in [entities -> in.ranges]
    /\ \E first \in [entities -> in.settings], ok \in BOOLEAN, d \in in.telemetry :
        LET dev == [last_update_success |-> ok, data |-> d] IN
        /\ attr = [a \in entities |->
                      OnDeviceUpdate(
                          OnSettingsUpdate(BlankAttr, EmptyDict, first[a]).attr, dev)]
        /\ class_last = ConstructedLast(in.entities, first, EmptyDict)
    /\ inst_last = [a \in entities |-> None]
    /\ added = [a \in entities |-> FALSE]
    /\ removed = [a \in entities |-> FALSE]
    /\ next_settings = [a \in entities |-> None]
    /\ post_cancel = [a \in entities |-> None]
    /\ timers = [a \in entities |-> {}]
    /\ inflight = [a \in entities |-> << >>]
    /\ burst = [a \in entities |-> << >>]
    /\ carried = [a \in entities |-> << >>]
    /\ elapsed = [a \in entities |-> QuietInterval]
    /\ answer = [a \in entities |-> None]

NextWith(in) ==
    \/ \E a \in entities, c \in in.calls :
          /\ Outstanding(entities) < in.commands
          /\ SetTemperature(a, Some(c.temperature), c.hvac_mode)
    \/ \E a \in entities, m \in in.modes :
          Outstanding(entities) < in.commands /\ SetHvacMode(a, m)
    \/ \E a \in entities, f \in in.fans :
          Outstanding(entities) < in.commands /\ SetFanMode(a, f)
    \/ \E a \in entities, w \in in.swings :
          Outstanding(entities) < in.commands /\ SetSwingMode(a, w)
    \/ \E a \in entities : \E t \in timers[a] : Fire(a, t)
    \/ \E a \in entities, s \in in.settings :
          \E i \in DOMAIN inflight[a] : Resolve(a, i, s)
    \/ \E a \in entities : \E i \in DOMAIN inflight[a] : PostFail(a, i)
    \/ \E a \in entities, s \in in.settings : OnDataUpdate(a, s)
    \/ \E a \in entities, st \in {None} \cup {Some(x) : x \in in.restored} :
          AsyncAddedToHass(a, st)
    \/ \E ok \in BOOLEAN, d \in in.telemetry : DevicesRefresh(ok, d)
    \/ \E a \in entities : Teardown(a)
    \/ Tick

\* the control path: commands, debounce, dispatch, confirmation
Init == InitWith(ControlInputs)
Next == NextWith(ControlInputs)
Spec == Init /\ [][Next]_vars

\* the application of settings and the per-mode memory
InitSettings == InitWith(SettingsInputs)
NextSettings == NextWith(SettingsInputs)
SpecSettings == InitSettings /\ [][NextSettings]_vars

\* the capabilities derived from the table of the remembered mode
InitCapability == InitWith(CapabilityInputs)
NextCapability == NextWith(CapabilityInputs)
SpecCapability == InitCapability /\ [][NextCapability]_vars

\* The event loop at work: time passes while a timer is waiting, and a timer
\* that is due runs its callback.
LoopRuns ==
    /\ WF_vars(Tick)
    /\ WF_vars(\E a \in entities : \E t \in timers[a] : Fire(a, t))

\* scheduling: what becomes of a pending command once the loop runs
InitScheduling == InitWith(SchedulingInputs)
NextScheduling == NextWith(SchedulingInputs)
SpecScheduling == InitScheduling /\ [][NextScheduling]_vars /\ LoopRuns

\* the telemetry path
InitTelemetry == InitWith(TelemetryInputs)
NextTelemetry == NextWith(TelemetryInputs)
SpecTelemetry == InitTelemetry /\ [][NextTelemetry]_vars

\* two appliances: what they share and what they own
InitPair == InitWith(PairInputs)
NextPair == NextWith(PairInputs)
SpecPair == InitPair /\ [][NextPair]_vars


(* ------------------------------ properties ---------------------------- *)

\* the fields the commands of burst b stage
BurstKeys(b) == UNION {DOMAIN b[i].data : i \in 1..Len(b)}

\* the field-wise merge of the commands of burst b, in order: each field has
\* the value of the last command that stages it
LastWriteWins(b) ==
    [k \in BurstKeys(b) |->
        LET last == CHOOSE i \in 1..Len(b) :
                        /\ k \in DOMAIN b[i].data
                        /\ \A j \in (i + 1)..Len(b) : k \notin DOMAIN b[j].data
        IN  b[last].data[k]]

\* this step hands a request of entity a to the transport
Sends(a) == Len(inflight'[a]) = Len(inflight[a]) + 1

\* this step stages a user command on entity a
Stages(a) ==
    /\ Len(burst'[a]) = Len(burst[a]) + 1
    /\ SubSeq(burst'[a], 1, Len(burst[a])) = burst[a]

\* C1: the commands staged since the last dispatch go out in one request:
\* a step sends at most one request; it sends one only when a full quiet
\* interval has passed since the last command, the request carries the
\* last-write-wins merge of all those commands, and the burst ends with it;
\* a burst changes only by a further command or by that one request.
C1_BurstSentOnceMerged ==
    [][\A a \in entities :
        /\ Len(inflight'[a]) <= Len(inflight[a]) + 1
        /\ Sends(a) =>
              /\ burst[a] # << >>
              /\ burst'[a] = << >>
              /\ elapsed[a] >= QuietInterval
              /\ inflight'[a] = Append(inflight[a], Some(LastWriteWins(burst[a])))
        /\ (burst[a] # << >> /\ burst'[a] # burst[a]) =>
              \/ Stages(a) /\ inflight'[a] = inflight[a]
              \/ burst'[a] = << >> /\ Sends(a)
    ]_vars

\* a request in flight that merged a temperature command and a fan command
C1_Witness ==
    \E a \in entities : \E i \in DOMAIN inflight[a] :
        /\ carried[a][i] >= 2
        /\ ~IsNone(inflight[a][i])
        /\ {"temperature", "air_volume"} \subseteq DOMAIN Val(inflight[a][i])

\* C2: the debounce timer is armed exactly when a pending command exists,
\* for the handle the entity keeps and for the timers the loop holds.
C2_ArmedIffPending ==
    \A a \in entities :
        /\ ~IsNone(post_cancel[a]) <=> ~IsNone(next_settings[a])
        /\ timers[a] # {} <=> ~IsNone(next_settings[a])

\* a pending command staged while an earlier request is in flight, on an
\* entity that has been torn down since
C2_Witness ==
    \E a \in entities :
        /\ ~IsNone(next_settings[a])
        /\ inflight[a] # << >>
        /\ removed[a]

\* C3: at most one timer of an entity is live, it is the one whose handle the
\* entity keeps (so a cancelled timer cannot fire), and the pending command
\* holds every field staged since the last dispatch.
C3_OneLiveTimer ==
    \A a \in entities :
        /\ Cardinality(timers[a]) <= 1
        /\ \A t \in timers[a] : post_cancel[a] = Some(t.id)
        /\ burst[a] # << >> =>
              /\ ~IsNone(next_settings[a])
              /\ DOMAIN Val(next_settings[a]) = BurstKeys(burst[a])

\* a timer armed anew by a second command, the first one's fields kept
C3_Witness ==
    \E a \in entities :
        /\ Len(burst[a]) >= 2
        /\ \E t \in timers[a] : t.left = QuietInterval
        /\ Cardinality(DOMAIN Val(next_settings[a])) >= 2

\* C4: a command staged while a request is in flight starts a pending command
\* that holds that command's fields alone and arms a timer; a step that
\* resolves a request leaves the pending command, the handle and the timers
\* as they are; and the pending command goes out as a request of its own,
\* next to the ones in flight.
C4_NewBufferIndependent ==
    [][\A a \in entities :
        /\ (Stages(a) /\ IsNone(next_settings[a]) /\ inflight[a] # << >>) =>
              /\ next_settings'[a] = Some(burst'[a][1].data)
              /\ ~IsNone(post_cancel'[a])
              /\ timers'[a] # {}
              /\ inflight'[a] = inflight[a]
        /\ Len(inflight'[a]) < Len(inflight[a]) =>
              /\ next_settings'[a] = next_settings[a]
              /\ post_cancel'[a] = post_cancel[a]
              /\ timers'[a] = timers[a]
        /\ (Sends(a) /\ inflight[a] # << >>) =>
              inflight'[a] = Append(inflight[a], next_settings[a])
    ]_vars

\* a pending command with its timer, staged while a request is in flight
C4_Witness ==
    \E a \in entities :
        /\ inflight[a] # << >>
        /\ ~IsNone(next_settings[a])
        /\ timers[a] # {}

\* C5: once an entity is torn down its timer is cancelled, its pending
\* command is cleared and no request is sent for it.
C5_TeardownCancels ==
    [][\A a \in entities :
        removed'[a] =>
            /\ timers'[a] = {}
            /\ IsNone(post_cancel'[a])
            /\ IsNone(next_settings'[a])
            /\ ~Sends(a)
    ]_vars

\* the temperature a mode change to vendor mode v stages on entity a: the
\* target remembered for v, or else "23"
RestoredTemperature(a, v) ==
    IF v \in DOMAIN LastTarget(a) THEN LastTarget(a)[v] ELSE <<"2", "3">>

\* C6: a set-mode command to a mode other than Off, with no temperature,
\* stages that operation_mode and the temperature remembered for the mode,
\* or 23 when none is remembered.
C6_ModeRestoresTarget ==
    [][\A a \in entities :
        Stages(a) =>
            LET e == burst'[a][Len(burst'[a])] IN
            ( /\ e.call.op = "set_temperature"
              /\ IsNone(e.call.temperature)
              /\ ~IsNone(e.call.hvac_mode)
              /\ Val(e.call.hvac_mode) # "OFF" ) =>
                LET v == MODE_HA_TO_REMO[Val(e.call.hvac_mode)]
                    ns == Val(next_settings'[a])
                IN  /\ {"operation_mode", "temperature"} \subseteq DOMAIN ns
                    /\ ns["operation_mode"] = v
                    /\ ns["temperature"] = RestoredTemperature(a, v)
    ]_vars

\* Cool staged with its remembered 25 on an entity that remembers nothing
\* for Heat
C6_Witness ==
    \E a \in entities :
        /\ Len(burst[a]) = 1
        /\ burst[a][1].call.hvac_mode = Some("COOL")
        /\ IsNone(burst[a][1].call.temperature)
        /\ Val(next_settings[a])["temperature"] = S25
        /\ "warm" \notin DOMAIN LastTarget(a)

\* C7: a step that stages a command leaves the attributes of every entity
\* and the remembered targets as they are.
C7_CommandFrame ==
    [][\A a \in entities :
        Stages(a) =>
            /\ attr' = attr
            /\ class_last' = class_last
            /\ inst_last' = inst_last
    ]_vars

\* a staged temperature of 24 that the observable target does not show
C7_Witness ==
    \E a \in entities :
        /\ ~IsNone(next_settings[a])
        /\ "temperature" \in DOMAIN Val(next_settings[a])
        /\ Val(next_settings[a])["temperature"] = <<"2", "4">>
        /\ attr[a].target_temperature # Some(240)

\* C8: applying a settings object twice in a row gives what applying it
\* once gives, in the attributes and in the remembered targets.
C8_ApplyIdempotent ==
    \A a \in entities : \A s \in SettingsInputs.settings :
        LET once == OnSettingsUpdate(attr[a], LastTarget(a), s)
            twice == OnSettingsUpdate(once.attr, once.last, s)
        IN  twice = once

\* an entity that has had targets confirmed for two modes and on which a
\* further settings object would change mode and memory
C8_Witness ==
    \E a \in entities : \E s \in SettingsInputs.settings :
        /\ {"cool", "warm"} \subseteq DOMAIN LastTarget(a)
        /\ attr[a].remo_mode # s.mode
        /\ OnSettingsUpdate(attr[a], LastTarget(a), s).last # LastTarget(a)

\* C9: no request carries both the power-off button and an operation_mode.
C9_OffExcludesMode ==
    \A a \in entities : \A i \in DOMAIN inflight[a] :
        ~IsNone(inflight[a][i]) =>
            ~({"button", "operation_mode"} \subseteq DOMAIN Val(inflight[a][i]))

\* C10: settings whose temperature is empty or not a number apply without
\* failing: the target becomes None, the remembered targets stay, and mode,
\* fan, swing, unit and updated_at are those of the settings.
C10_BadTemperatureTolerated ==
    \A a \in entities : \A s \in SettingsInputs.settings :
        s.temp \in {<< >>, <<"x">>} =>
            LET r == OnSettingsUpdate(attr[a], LastTarget(a), s) IN
            /\ IsNone(r.attr.target_temperature)
            /\ r.last = LastTarget(a)
            /\ r.attr.remo_mode = s.mode
            /\ r.attr.hvac_mode = IF s.button = "power-off" THEN "OFF"
                                  ELSE MODE_REMO_TO_HA[s.mode]
            /\ r.attr.fan_mode = IF s.vol = "" THEN None ELSE Some(s.vol)
            /\ r.attr.swing_mode = IF s.dir = "" THEN None ELSE Some(s.dir)
            /\ r.attr.temperature_unit = IF s.temp_unit = "f" THEN "FAHRENHEIT"
                                         ELSE "CELSIUS"
            /\ r.attr.updated_at = IF s.updated_at = "" THEN None
                                   ELSE Some(s.updated_at)

\* an entity showing settings with an unparseable temperature (no target,
\* Fahrenheit, no fan) that still remembers the target of Cool
C10_Witness ==
    \E a \in entities :
        /\ IsNone(attr[a].target_temperature)
        /\ attr[a].temperature_unit = "FAHRENHEIT"
        /\ IsNone(attr[a].fan_mode)
        /\ "cool" \in DOMAIN LastTarget(a)

\* this step ends a request of entity a with a transport failure
Fails(a) ==
    /\ Len(inflight'[a]) < Len(inflight[a])
    /\ ~IsNone(answer'[a])
    /\ Val(answer'[a]).how = "failed"

\* C11: a step in which a request fails leaves the attributes and the
\* remembered targets of every entity as they were, and retries nothing: no
\* command is staged, no timer armed and no request sent by it; the failed
\* request alone leaves the transport.
C11_FailureLeavesState ==
    [][\A a \in entities :
        Fails(a) =>
            /\ attr' = attr
            /\ class_last' = class_last
            /\ inst_last' = inst_last
            /\ next_settings' = next_settings
            /\ post_cancel' = post_cancel
            /\ timers' = timers
            /\ \E i \in DOMAIN inflight[a] : inflight'[a] = Remove(inflight[a], i)
    ]_vars

\* the only request of an entity has failed: the entity shows the settings
\* it was constructed with, not the staged Heat, and nothing is pending
C11_Witness ==
    \E a \in entities :
        /\ answer[a] = Some(Failed)
        /\ inflight[a] = << >>
        /\ IsNone(next_settings[a])
        /\ timers[a] = {}
        /\ attr[a].hvac_mode = "COOL"
        /\ attr[a].target_temperature = Some(250)

\* the attributes of e that come from the settings, not from the sensors
SettingsShown(e) ==
    [ remo_mode |-> e.remo_mode, target_temperature |-> e.target_temperature,
      hvac_mode |-> e.hvac_mode, fan_mode |-> e.fan_mode,
      swing_mode |-> e.swing_mode, temperature_unit |-> e.temperature_unit,
      updated_at |-> e.updated_at ]

\* C12: a telemetry refresh that failed changes no attribute of an entity,
\* whatever the device holds; and a step that changes the ambient temperature
\* or the humidity an entity shows sets both to a reading of the device (the
\* humidity as a whole number) and leaves the entity's mode, target, fan,
\* swing, unit and updated_at, the remembered targets, the pending command,
\* the timer and the requests in flight as they were.
C12_TelemetryFrame ==
    /\ [](\A a \in entities : \A d \in TelemetryInputs.telemetry :
            OnDeviceUpdate(attr[a], [last_update_success |-> FALSE, data |-> d])
                = attr[a])
    /\ [][\A a \in entities :
            ( \/ attr'[a].current_temperature # attr[a].current_temperature
              \/ attr'[a].current_humidity # attr[a].current_humidity ) =>
                /\ \E d \in TelemetryInputs.telemetry :
                      /\ attr'[a].current_temperature = Some(d.te)
                      /\ attr'[a].current_humidity = Some(d.hu \div 10)
                /\ SettingsShown(attr'[a]) = SettingsShown(attr[a])
                /\ class_last' = class_last
                /\ inst_last' = inst_last
                /\ pendingVars' = pendingVars
                /\ inflight' = inflight
       ]_vars

\* the second reading shown (21.0 degrees, 50 %) by an entity that is off,
\* with a command pending and its timer running
C12_Witness ==
    \E a \in entities :
        /\ attr[a].current_temperature = Some(210)
        /\ attr[a].current_humidity = Some(50)
        /\ attr[a].hvac_mode = "OFF"
        /\ ~IsNone(next_settings[a])
        /\ \E t \in timers[a] : t.left < QuietInterval

\* this step ends a request of entity a with the server's answer
Confirms(a) ==
    /\ Len(inflight'[a]) < Len(inflight[a])
    /\ ~IsNone(answer'[a])
    /\ Val(answer'[a]).how = "answered"

\* C13: a confirmation that arrives for an entity already torn down is
\* discarded: the step changes neither the attributes of the entity nor any
\* remembered target.
C13_LateConfirmationDiscarded ==
    [][\A a \in entities :
        (removed[a] /\ Confirms(a)) =>
            /\ attr'[a] = attr[a]
            /\ class_last' = class_last
            /\ inst_last' = inst_last
    ]_vars

\* C14: the two mode tables are total on the six generic and the six vendor
\* modes and are inverse to each other, in both directions; so an entity that
\* is not off shows the generic mode whose vendor mode it remembers.
C14_ModeBijection ==
    /\ DOMAIN MODE_HA_TO_REMO = HVACModes
    /\ DOMAIN MODE_REMO_TO_HA = RemoModes
    /\ \A m \in HVACModes :
          /\ MODE_HA_TO_REMO[m] \in RemoModes
          /\ MODE_REMO_TO_HA[MODE_HA_TO_REMO[m]] = m
    /\ \A v \in RemoModes :
          /\ MODE_REMO_TO_HA[v] \in HVACModes
          /\ MODE_HA_TO_REMO[MODE_REMO_TO_HA[v]] = v
    /\ \A a \in entities :
          attr[a].hvac_mode # "OFF" =>
              MODE_HA_TO_REMO[attr[a].hvac_mode] = attr[a].remo_mode

\* both tables used: Heat staged as "warm" on an entity that shows Cool for
\* a confirmed "cool"
C14_Witness ==
    \E a \in entities :
        /\ ~IsNone(next_settings[a])
        /\ "operation_mode" \in DOMAIN Val(next_settings[a])
        /\ Val(next_settings[a])["operation_mode"] = "warm"
        /\ attr[a].remo_mode = "cool"
        /\ attr[a].hvac_mode = "COOL"

\* min and max of entity a are the least and the greatest of the sequence r,
\* and both 0 when r is empty
RangeEnds(a, r) ==
    IF Len(r) = 0 THEN min_temp(a) = 0 /\ max_temp(a) = 0
    ELSE /\ \E i \in 1..Len(r) : min_temp(a) = r[i]
         /\ \E i \in 1..Len(r) : max_temp(a) = r[i]
         /\ \A i \in 1..Len(r) : min_temp(a) <= r[i] /\ r[i] <= max_temp(a)

\* C15, as the claim states it: the step is the difference of the first two
\* temperatures of the remembered mode if that difference is exactly 1.0 or
\* 0.5, and 1 otherwise; min and max are the least and the greatest
\* temperature, and 0 for an empty sequence.
C15_StepExactDifference ==
    \A a \in entities :
        LET r == current_mode_temp_range(a) IN
        /\ target_temperature_step(a) =
              IF Len(r) >= 2 /\ (r[2] - r[1]) \in {100, 50}
              THEN r[2] - r[1] ELSE 100
        /\ RangeEnds(a, r)

\* C15, amended: the step is 0.5 exactly when there are two temperatures
\* whose difference rounds to 0.5 at one decimal (it lies between 0.45 and
\* 0.55), and 1 in every other case: a difference that rounds to 1.0, a gap
\* of 2, values out of order, fewer than two values; min and max are the
\* least and the greatest temperature, and 0 for an empty sequence.
C15_StepRoundedDifference ==
    \A a \in entities :
        LET r == current_mode_temp_range(a) IN
        /\ target_temperature_step(a) \in {50, 100}
        /\ target_temperature_step(a) = 50 <=>
              (Len(r) >= 2 /\ 45 < r[2] - r[1] /\ r[2] - r[1] < 55)
        /\ RangeEnds(a, r)

\* an entity in Cool whose table lists 18 and 18.54 after an empty entry:
\* the step is 0.5 and the range 18 to 18.54
C15_Witness ==
    \E a \in entities :
        /\ modes[a] = RoughRange
        /\ attr[a].remo_mode = "cool"
        /\ target_temperature_step(a) = 50
        /\ min_temp(a) = 1800
        /\ max_temp(a) = 1854
        /\ answer[a] = Some(Answered(1))

\* C16: settings whose button is "power-off" make the entity show Off and
\* remember the mode field of the settings; so in every state the remembered
\* vendor mode is one of the modes other than "power-off" and has an entry in
\* the capability table, where the temperatures, fan settings and swing
\* settings are looked up.
C16_RememberedModeNotOff ==
    \A a \in entities :
        /\ attr[a].remo_mode \in RemoModes \ {"power-off"}
        /\ attr[a].remo_mode \in DOMAIN modes[a]
        /\ \A s \in CapabilityInputs.settings :
              s.button = "power-off" =>
                  LET r == OnSettingsUpdate(attr[a], LastTarget(a), s).attr IN
                  /\ r.hvac_mode = "OFF"
                  /\ r.remo_mode = s.mode
                  /\ r.remo_mode \in DOMAIN modes[a]

\* an entity shown as Off after a confirmation, remembering "warm", whose
\* fan choices are those of "warm"
C16_Witness ==
    \E a \in entities :
        /\ answer[a] = Some(Answered(1))
        /\ attr[a].hvac_mode = "OFF"
        /\ attr[a].remo_mode = "warm"
        /\ fan_modes(a) = modes[a]["warm"].vol
        /\ swing_modes(a) = << >>

\* string s spells the temperature t (in tenths) the way the command
\* endpoint takes it: digits alone for a whole number, one decimal otherwise
Spells(s, t) ==
    /\ PyFloat(s) = Some(t)
    /\ IsInteger(t) => \A i \in 1..Len(s) : s[i] \in DigitSet

\* C17: a set_temperature call with a temperature stages that temperature,
\* a whole number in integer form, also when the call changes the mode and
\* the mode has a remembered or default temperature of its own; the pending
\* command then holds it, and a request sent right after that call carries
\* it in the same form.
C17_TemperatureEncoding ==
    [][\A a \in entities :
        /\ Stages(a) =>
              LET e == burst'[a][Len(burst'[a])] IN
              (e.call.op = "set_temperature" /\ ~IsNone(e.call.temperature)) =>
                  /\ "temperature" \in DOMAIN e.data
                  /\ Spells(e.data["temperature"], Val(e.call.temperature))
                  /\ Val(next_settings'[a])["temperature"] = e.data["temperature"]
                  /\ ( ~IsNone(e.call.hvac_mode) /\ Val(e.call.hvac_mode) # "OFF" ) =>
                        e.data["operation_mode"] = MODE_HA_TO_REMO[Val(e.call.hvac_mode)]
        /\ (Sends(a) /\ burst[a] # << >>) =>
              LET e == burst[a][Len(burst[a])]
                  sent == Val(inflight'[a][Len(inflight'[a])])
              IN  (e.call.op = "set_temperature" /\ ~IsNone(e.call.temperature)) =>
                      Spells(sent["temperature"], Val(e.call.temperature))
    ]_vars

\* two requests in flight: one carrying "24" for set_temperature(24.0), one
\* carrying "24.5" with mode "cool" although 25 is remembered for Cool
C17_Witness ==
    \E a \in entities : \E i, j \in DOMAIN inflight[a] :
        /\ Val(inflight[a][i]) = ("temperature" :> <<"2", "4">>)
        /\ Val(inflight[a][j]) = ("temperature" :> <<"2", "4", ".", "5">>)
                                   @@ ("operation_mode" :> "cool")
        /\ "cool" \in DOMAIN LastTarget(a)
        /\ LastTarget(a)["cool"] = S25

\* C18: a step in which a request of an entity is answered takes that one
\* request, whichever of the requests in flight it is, out of the transport
\* and leaves the others in flight, each to be answered in its turn; it
\* applies the answer, after which the entity shows the settings of that
\* answer alone, whatever an earlier answer had set.
C18_LastAppliedWins ==
    [][\A a \in entities :
        Confirms(a) =>
            LET i == Val(answer'[a]).place IN
            /\ i \in DOMAIN inflight[a]
            /\ inflight'[a] = Remove(inflight[a], i)
            /\ \E s \in ControlInputs.settings :
                  /\ attr'[a] = OnSettingsUpdate(attr[a], LastTarget(a), s).attr
                  /\ SettingsShown(attr'[a]) =
                        SettingsShown(OnSettingsUpdate(BlankAttr, EmptyDict, s).attr)
    ]_vars

\* the newer of two requests has been answered first and the entity shows
\* Off; the older request is still in flight
C18_Witness ==
    \E a \in entities :
        /\ answer[a] = Some(Answered(2))
        /\ Len(inflight[a]) = 1
        /\ attr[a].hvac_mode = "OFF"
        /\ attr[a].updated_at = Some("t2")

\* what self._last_target_temperature evaluates to for entity a after the step
LastTargetAfter(a) ==
    IF IsNone(inst_last'[a]) THEN class_last' ELSE Val(inst_last'[a])

\* C19: the remembered targets belong to one appliance: a step in which a
\* request of entity a is answered leaves the remembered targets of every
\* other entity as they were.
C19_MemoryPerAppliance ==
    [][\A a \in entities : \A b \in entities \ {a} :
        Confirms(a) => LastTargetAfter(b) = LastTarget(b)
    ]_vars

\* C20: no pending command is lost or sent twice.  A field once in the
\* pending command stays there until a request is sent; the pending command
\* is emptied by the sending of a request and by nothing else, and that
\* request carries it whole, its fields being those staged since the last
\* request with the values of the last command that staged each.  And if
\* the entity is never torn down and from some time on no command is
\* staged, then from some time on nothing is pending and no timer is armed.
C20_NoCommandLostOrResent ==
    /\ [][\A a \in entities :
            /\ (~IsNone(next_settings[a]) /\ ~Sends(a)) =>
                  /\ ~IsNone(next_settings'[a])
                  /\ DOMAIN Val(next_settings[a]) \subseteq DOMAIN Val(next_settings'[a])
            /\ Sends(a) =>
                  /\ ~IsNone(next_settings[a])
                  /\ IsNone(next_settings'[a])
                  /\ inflight'[a][Len(inflight'[a])] = next_settings[a]
                  /\ Val(next_settings[a]) = LastWriteWins(burst[a])
       ]_vars
    /\ \A a \in {SchedulingInputs.entities[i] : i \in DOMAIN SchedulingInputs.entities} :
          ( /\ []~removed[a]
            /\ <>[][~Stages(a)]_vars ) =>
              <>[]( /\ IsNone(next_settings[a])
                    /\ IsNone(post_cancel[a])
                    /\ timers[a] = {} )

\* an entity not torn down whose burst of two commands has gone out as one
\* request: nothing is pending, no timer is armed
C20_Witness ==
    \E a \in entities :
        /\ ~removed[a]
        /\ \E i \in DOMAIN inflight[a] :
              /\ carried[a][i] = 2
              /\ DOMAIN Val(inflight[a][i]) = {"operation_mode", "temperature", "air_direction"}
        /\ IsNone(next_settings[a])
        /\ IsNone(post_cancel[a])
        /\ timers[a] = {}

=============================================================================
